---- MODULE Spec2Model ----
(***************************************************************************)
(* Model of langchain/sql_database.py: the SQLDatabase facade over a       *)
(* psycopg2 connection.  Python strings whose characters matter (statement *)
(* text, result cells) are sequences of one-character strings; error       *)
(* messages and rendered text are kept as structured values.               *)
(***************************************************************************)
EXTENDS Integers, Sequences, FiniteSets, TLC

VARIABLES db, conn, view, call, out

vars == <<db, conn, view, call, out>>

(* ------------------------------ bounds -------------------------------- *)

\* number of relation names in play
NumTables == 2
\* largest truncate_col passed to the constructor
MaxTrunc == 2
\* longest string cell the driver returns
MaxStrLen == 3

TableNameSeq == <<"a", "b", "c", "d">>

Names == {TableNameSeq[i] : i \in 1..NumTables}

(* --------------------------- Python helpers --------------------------- *)

UpperChars == <<"A","B","C","D","E","F","G","H","I","J","K","L","M",
                "N","O","P","Q","R","S","T","U","V","W","X","Y","Z">>

LowerChars == <<"a","b","c","d","e","f","g","h","i","j","k","l","m",
                "n","o","p","q","r","s","t","u","v","w","x","y","z">>

\* str.lower() on one character
LowerChar(c) ==
  IF \E i \in 1..26 : UpperChars[i] = c
  THEN LowerChars[CHOOSE i \in 1..26 : UpperChars[i] = c]
  ELSE c

\* str.lower()
Lower(s) == [i \in 1..Len(s) |-> LowerChar(s[i])]

\* the Python test  sub in s  on strings
Contains(sub, s) ==
  \E i \in 1..(Len(s) - Len(sub) + 1) : SubSeq(s, i, i + Len(sub) - 1) = sub

\* the Python slice s[:n]
SlicePrefix(s, n) ==
  IF n >= 0
  THEN SubSeq(s, 1, IF n < Len(s) THEN n ELSE Len(s))
  ELSE SubSeq(s, 1, IF Len(s) + n > 0 THEN Len(s) + n ELSE 0)

SelectWord == <<"s","e","l","e","c","t">>

(* ----------------------------- cell values ---------------------------- *)

StrCell(s) == [isstr |-> TRUE, isnone |-> FALSE, s |-> s, n |-> 0]

IntCell(n) == [isstr |-> FALSE, isnone |-> FALSE, s |-> <<>>, n |-> n]

NoneCell == [isstr |-> FALSE, isnone |-> TRUE, s |-> <<>>, n |-> 0]

CellChars == <<"p","q","r","s","t","u","v","w">>

\* the string cell of length k the driver returns
TextOf(k) == SubSeq(CellChars, 1, k)

(* ------------------------------ messages ------------------------------ *)

Msg(text, names) == [text |-> text, names |-> names]

ConfigMsg == Msg("Cannot specify both include_tables and ignore_tables", {})

IncludeMsg(missing) == Msg("include_tables {} not found in database", missing)

IgnoreMsg(missing) == Msg("ignore_tables {} not found in database", missing)

TableNamesMsg(missing) == Msg("table_names {} not found in database", missing)

SampleRowsMsg == Msg("sample_rows_in_table_info must be an integer", {})

CustomInfoMsg == Msg("table_info must be a dictionary with table names as keys and the desired table info as values", {})

FetchMsg == Msg("Fetch parameter must be either 'one' or 'all'", {})

DriverMsg == Msg("driver error", {})

NoneIterMsg == Msg("'NoneType' object is not iterable", {})

NoneSubscriptMsg == Msg("'NoneType' object is not subscriptable", {})

IntIterMsg == Msg("'int' object is not iterable", {})

Raise(exc, msg) == [kind |-> "raise", exc |-> exc, msg |-> msg]

Return(val) == [kind |-> "ret", val |-> val]

\* the f-string  f"Error: {e}"
ErrorString(msg) == [t |-> "errstr", prefix |-> "Error: ", msg |-> msg]

NoCall == [op |-> "none"]

NoOut == [kind |-> "none"]

NoView == [constructed |-> FALSE, failed |-> FALSE]

\* a construction that raised leaves no object behind
FailedView == [constructed |-> FALSE, failed |-> TRUE]

(* ------------------------------ catalog ------------------------------- *)

\* attribute rows of one relation, in attnum order
AttRows(i) ==
  IF i % 2 = 1
  THEN << <<TableNameSeq[i], "id", "int4">>, <<TableNameSeq[i], "name", "varchar">> >>
  ELSE << <<TableNameSeq[i], "id", "int4">> >>

RECURSIVE CatalogRowsFrom(_, _)
\* result stream of the attribute query: ORDER BY c.relname, a.attnum
CatalogRowsFrom(rels, i) ==
  IF i > NumTables THEN <<>>
  ELSE (IF TableNameSeq[i] \in rels THEN AttRows(i) ELSE <<>>)
       \o CatalogRowsFrom(rels, i + 1)

CatalogRows(d) == CatalogRowsFrom(d.rels, 1)

RECURSIVE GroupRows(_, _, _)
\* tables.setdefault(rec[0], []); tables[rec[0]].append(rec)
GroupRows(rows, keys, atts) ==
  IF rows = <<>> THEN [keys |-> keys, atts |-> atts]
  ELSE LET rec == Head(rows)
           seen == \E k \in 1..Len(keys) : keys[k] = rec[1]
           keys2 == IF seen THEN keys ELSE Append(keys, rec[1])
           atts2 == [n \in Names |->
                       IF n = rec[1] THEN Append(atts[n], rec) ELSE atts[n]]
       IN GroupRows(Tail(rows), keys2, atts2)

get_tables_dict(d) == GroupRows(CatalogRows(d), <<>>, [n \in Names |-> <<>>])

\* the relation query: relnamespace=1 and relkind not in ('i','I','c')
get_tables_list(d) == d.listed

(* --------------------------- table filtering -------------------------- *)

\* variant: the include list is not consulted
get_usable_table_names_noinclude(v) == v.all_tables \ v.ignore_tables

get_usable_table_names(v) ==
  IF v.include_tables # {} THEN v.include_tables
  ELSE v.all_tables \ v.ignore_tables

\* variant: custom_table_info is stored as passed
FilterCustomInfo_unfiltered(custom, all_tables) == custom

\* the filtering of custom_table_info to the tables of the database
FilterCustomInfo(custom, all_tables) ==
  IF custom.kind = "dict" /\ custom.keys # {}
  THEN [kind |-> "dict", keys |-> custom.keys \cap all_tables]
  ELSE custom

\* self._usable_tables = set(usable_tables) if usable_tables else self._all_tables
StoredUsable(usable, all_tables) == IF usable # {} THEN usable ELSE all_tables

\* variant: only overlapping lists are rejected
ConfigConflict_overlap(include_tables, ignore_tables) ==
  include_tables \cap ignore_tables # {}

\* the test  if include_tables and ignore_tables
ConfigConflict(include_tables, ignore_tables) ==
  include_tables # {} /\ ignore_tables # {}

\* SQLDatabase.__init__
init(d, a) ==
  IF ~a.probe_ok THEN Raise("DriverError", DriverMsg)
  ELSE IF ConfigConflict(a.include_tables, a.ignore_tables)
  THEN Raise("ValueError", ConfigMsg)
  ELSE IF ~a.list_ok THEN Raise("DriverError", DriverMsg)
  ELSE
    LET all_tables == get_tables_list(d)
        v0 == [all_tables |-> all_tables,
               include_tables |-> a.include_tables,
               ignore_tables |-> a.ignore_tables]
    IN IF a.include_tables \ all_tables # {}
       THEN Raise("ValueError", IncludeMsg(a.include_tables \ all_tables))
       ELSE IF a.ignore_tables \ all_tables # {}
       THEN Raise("ValueError", IgnoreMsg(a.ignore_tables \ all_tables))
       ELSE IF ~a.sample_rows_is_int
       THEN Raise("TypeError", SampleRowsMsg)
       ELSE IF a.custom_table_info.kind = "other"
       THEN Raise("TypeError", CustomInfoMsg)
       ELSE Return([constructed |-> TRUE,
                    failed |-> FALSE,
                    all_tables |-> all_tables,
                    include_tables |-> a.include_tables,
                    ignore_tables |-> a.ignore_tables,
                    usable_tables |->
                      StoredUsable(get_usable_table_names(v0), all_tables),
                    custom_table_info |->
                      FilterCustomInfo(a.custom_table_info, all_tables),
                    truncate_col |-> a.truncate_col])

(* ------------------------------ rendering ----------------------------- *)

\* one CREATE TABLE block: the table and its "<name> <typ>" attributes
Block(t, recs) ==
  [table |-> t, atts |-> [k \in 1..Len(recs) |-> <<recs[k][2], recs[k][3]>>]]

\* the loop  for t in tables.keys()
RenderBlocks(tables) ==
  [k \in 1..Len(tables.keys) |-> Block(tables.keys[k], tables.atts[tables.keys[k]])]

\* variant: only one missing name is reported
MissingTables_first(table_names, usable) ==
  IF table_names \ usable = {} THEN {}
  ELSE {CHOOSE n \in table_names \ usable : TRUE}

\* set(table_names).difference(all_table_names)
MissingTables(table_names, usable) == table_names \ usable

get_table_info(v, d, dict_ok, tn) ==
  IF ~dict_ok THEN Raise("DriverError", DriverMsg)
  ELSE LET tables == get_tables_dict(d)
           all_table_names == get_usable_table_names(v)
       IN IF tn.given /\ MissingTables(tn.names, all_table_names) # {}
          THEN Raise("ValueError",
                     TableNamesMsg(MissingTables(tn.names, all_table_names)))
          ELSE Return([t |-> "text", blocks |-> RenderBlocks(tables)])

\* variant: except Exception
TableInfoCatches_all(exc) == TRUE

\* the clause  except ValueError
TableInfoCatches(exc) == exc = "ValueError"

get_table_info_no_throw(v, d, dict_ok, tn) ==
  LET r == get_table_info(v, d, dict_ok, tn)
  IN IF r.kind = "raise" /\ TableInfoCatches(r.exc)
     THEN Return(ErrorString(r.msg))
     ELSE r

(* ------------------------------ execution ----------------------------- *)

\* variant: the slice keeps one character too many
TruncateRow_offbyone(row, tc) ==
  [k \in 1..Len(row) |->
     IF row[k].isstr THEN StrCell(SlicePrefix(row[k].s, tc + 1)) ELSE row[k]]

\* tuple(e[:truncate_col] if isinstance(e, str) else e for e in row)
TruncateRow(row, tc) ==
  [k \in 1..Len(row) |->
     IF row[k].isstr THEN StrCell(SlicePrefix(row[k].s, tc)) ELSE row[k]]

truncate_results(results, tc) ==
  [k \in 1..Len(results) |-> TruncateRow(results[k], tc)]

\* _truncate_results applied to one cell: for row in cell, for e in row
TruncateCell(cell, tc) ==
  IF cell.isstr
  THEN Return([k \in 1..Len(cell.s) |-> <<StrCell(SlicePrefix(<<cell.s[k]>>, tc))>>])
  ELSE IF cell.isnone THEN Raise("TypeError", NoneIterMsg)
  ELSE Raise("TypeError", IntIterMsg)

\* the gate  "select" in command.lower()
SelectGate(command) == Contains(SelectWord, Lower(command))

RunValue(cols, tag, rows) == [t |-> "pair", cols |-> cols, tag |-> tag, rows |-> rows]

\* return "",""
EmptyMarker == RunValue(<<>>, "str", <<>>)

run(v, command, fetch, d) ==
  IF ~d.exec_ok THEN Raise("DriverError", DriverMsg)
  ELSE IF ~d.has_description THEN Raise("TypeError", NoneIterMsg)
  ELSE IF SelectGate(command)
  THEN IF fetch = "all"
       THEN IF ~d.fetch_ok THEN Raise("DriverError", DriverMsg)
            ELSE Return(RunValue(d.cols, "rows",
                                 truncate_results(d.rows, v.truncate_col)))
       ELSE IF fetch = "one"
       THEN IF ~d.fetch_ok THEN Raise("DriverError", DriverMsg)
            ELSE IF d.rows = <<>> THEN Raise("TypeError", NoneSubscriptMsg)
            ELSE LET r == TruncateCell(d.rows[1][1], v.truncate_col)
                 IN IF r.kind = "raise" THEN r
                    ELSE Return(RunValue(d.cols, "rows", r.val))
       ELSE Raise("ValueError", FetchMsg)
  ELSE Return(EmptyMarker)

\* variant: except ValueError
RunCatches_valueerror(exc) == exc = "ValueError"

\* the clause  except Exception
RunCatches(exc) == exc \in {"ValueError", "TypeError", "DriverError"}

run_no_throw(v, command, fetch, d) ==
  LET r == run(v, command, fetch, d)
  IN IF r.kind = "raise" /\ RunCatches(r.exc)
     THEN Return(ErrorString(r.msg))
     ELSE r

(* ------------------------------- inputs ------------------------------- *)

\* the relation with the last name may be an index, which the relation query
\* leaves out while the attribute query still reports its columns
Databases ==
  {[rels |-> r, listed |-> r \ x] :
     r \in SUBSET Names, x \in {{}, {TableNameSeq[NumTables]}}}

CustomInfos ==
  {[kind |-> "none", keys |-> {}], [kind |-> "other", keys |-> {}]}
  \cup {[kind |-> "dict", keys |-> Names]}

InitArgs ==
  [include_tables : SUBSET Names,
   ignore_tables : SUBSET Names,
   custom_table_info : CustomInfos,
   sample_rows_is_int : BOOLEAN,
   truncate_col : {1, MaxTrunc},
   probe_ok : BOOLEAN,
   list_ok : BOOLEAN]

TableNameArgs ==
  {[given |-> FALSE, names |-> {}]}
  \cup {[given |-> TRUE, names |-> s] : s \in SUBSET Names}

Commands ==
  { <<"S","E","L","E","C","T"," ","1">>,
    <<"U","P","D","A","T","E"," ","t">>,
    <<"x","=","s","e","l","e","c","t","e","d">> }

FetchModes == {"all", "one", "bogus"}

RowA(k) == <<StrCell(TextOf(k)), IntCell(5)>>

RowB(k) == <<IntCell(7), StrCell(TextOf(k))>>

RowC == <<NoneCell, StrCell(TextOf(1))>>

ResultSets ==
  { <<>> , <<RowC>> }
  \cup { <<RowA(k)>> : k \in 0..MaxStrLen }
  \cup { <<RowB(k), RowA(MaxStrLen)>> : k \in {0, MaxStrLen} }

\* what the driver does with one statement
DriverOutcomes ==
  { [exec_ok |-> FALSE, has_description |-> FALSE, cols |-> <<>>,
     rows |-> <<>>, fetch_ok |-> FALSE],
    [exec_ok |-> TRUE, has_description |-> FALSE, cols |-> <<>>,
     rows |-> <<>>, fetch_ok |-> FALSE],
    [exec_ok |-> TRUE, has_description |-> TRUE, cols |-> <<"c1", "c2">>,
     rows |-> <<>>, fetch_ok |-> FALSE] }
  \cup { [exec_ok |-> TRUE, has_description |-> TRUE, cols |-> <<"c1", "c2">>,
          rows |-> rs, fetch_ok |-> TRUE] : rs \in ResultSets }

\* the condition of the connection: how the next catalog query and the next
\* caller statement fare
Connections == [catalog_ok : BOOLEAN, stmt : DriverOutcomes]

\* a connection as psycopg2.connect hands it over: no statement has failed
FreshConnection ==
  [catalog_ok |-> TRUE,
   stmt |-> [exec_ok |-> TRUE, has_description |-> TRUE, cols |-> <<"c1", "c2">>,
             rows |-> <<>>, fetch_ok |-> TRUE]]

(* ------------------------------- actions ------------------------------ *)

Init ==
  /\ db \in Databases
  /\ conn = FreshConnection
  /\ view = NoView
  /\ call = NoCall
  /\ out = NoOut

\* the environment: the connection's condition changes between calls
ConnectionChanges ==
  /\ view.constructed
  /\ conn' \in Connections \ {conn}
  /\ call' = NoCall
  /\ out' = NoOut
  /\ UNCHANGED <<db, view>>

Construct ==
  /\ view = NoView
  /\ \E a \in InitArgs :
       LET r == init(db, a)
       IN /\ call' = [op |-> "init", args |-> a]
          /\ out' = r
          /\ view' = IF r.kind = "ret" THEN r.val ELSE FailedView
  /\ UNCHANGED <<db, conn>>

GetUsableTableNames ==
  /\ view.constructed
  /\ call' = [op |-> "get_usable_table_names"]
  /\ out' = Return([t |-> "names", names |-> get_usable_table_names(view)])
  /\ UNCHANGED <<db, conn, view>>

GetTableInfo ==
  /\ view.constructed
  /\ \E tn \in TableNameArgs :
       /\ call' = [op |-> "get_table_info", table_names |-> tn]
       /\ out' = get_table_info(view, db, conn.catalog_ok, tn)
  /\ UNCHANGED <<db, conn, view>>

GetTableInfoNoThrow ==
  /\ view.constructed
  /\ \E tn \in TableNameArgs :
       /\ call' = [op |-> "get_table_info_no_throw", table_names |-> tn]
       /\ out' = get_table_info_no_throw(view, db, conn.catalog_ok, tn)
  /\ UNCHANGED <<db, conn, view>>

Run ==
  /\ view.constructed
  /\ \E c \in Commands, f \in FetchModes :
       /\ call' = [op |-> "run", command |-> c, fetch |-> f]
       /\ out' = run(view, c, f, conn.stmt)
  /\ UNCHANGED <<db, conn, view>>

RunNoThrow ==
  /\ view.constructed
  /\ \E c \in Commands, f \in FetchModes :
       /\ call' = [op |-> "run_no_throw", command |-> c, fetch |-> f]
       /\ out' = run_no_throw(view, c, f, conn.stmt)
  /\ UNCHANGED <<db, conn, view>>

Next ==
  \/ ConnectionChanges
  \/ Construct
  \/ GetUsableTableNames
  \/ GetTableInfo
  \/ GetTableInfoNoThrow
  \/ Run
  \/ RunNoThrow

Spec == Init /\ [][Next]_vars

(* ------------------------------- claims ------------------------------- *)

\* the statement text contains "select", compared case-insensitively
HasSelect(command) ==
  \E i \in 1..(Len(command) - 5) :
    [k \in 1..6 |-> LowerChar(command[i + k - 1])] = <<"s","e","l","e","c","t">>

\* includeTables when non-empty, else allTables minus ignoreTables
Derived(all_tables, include_tables, ignore_tables) ==
  IF include_tables # {} THEN include_tables ELSE all_tables \ ignore_tables

ViewDerived == Derived(view.all_tables, view.include_tables, view.ignore_tables)

\* C1: a statement without "select" that the driver executes without error
\* makes run return the empty marker without raising, whatever the driver
\* produced and whatever the fetch mode.
C1_NoSelectReturnsEmptyMarker ==
  (call.op = "run" /\ ~HasSelect(call.command) /\ conn.stmt.exec_ok)
    => (out.kind = "ret" /\ out.val.cols = <<>> /\ out.val.rows = <<>>)

\* the tables of the rendered blocks, in order
BlockTables(blocks) == [k \in 1..Len(blocks) |-> blocks[k].table]

\* the catalog's keys restricted to a set, in the catalog's iteration order
CatalogOrder(names) ==
  LET keep(t) == t \in names
  IN SelectSeq(BlockTables(RenderBlocks(get_tables_dict(db))), keep)

\* C2: get_table_info emits a CREATE TABLE block for exactly the tables of
\* the resolved set (table_names when given, the usable tables otherwise), in
\* the catalog's iteration order, and for no other relation.
C2_BlocksAreResolvedTables ==
  (call.op = "get_table_info" /\ out.kind = "ret")
    => BlockTables(out.val.blocks) =
         CatalogOrder(IF call.table_names.given THEN call.table_names.names
                      ELSE ViewDerived)

\* C3: run(statement, "one") on a statement with "select" whose result has
\* at least one row returns the first cell of the first row itself (a string
\* cell prefix-truncated), for string and non-string cells alike.
C3_FetchOneReturnsFirstCell ==
  (/\ call.op = "run" /\ call.fetch = "one" /\ HasSelect(call.command)
   /\ conn.stmt.exec_ok /\ conn.stmt.has_description /\ conn.stmt.fetch_ok
   /\ conn.stmt.rows # <<>>)
    => (/\ out.kind = "ret"
        /\ out.val.tag = "cell"
        /\ LET c == conn.stmt.rows[1][1]
           IN out.val.rows =
                IF c.isstr
                THEN StrCell(SubSeq(c.s, 1, IF Len(c.s) < view.truncate_col
                                            THEN Len(c.s) ELSE view.truncate_col))
                ELSE c)

\* C4: run_no_throw never raises: where run raises a driver error or an
\* invalid-fetch-mode error it returns "Error: " followed by the message, and
\* where run returns it returns run's result unchanged.
C4_RunNoThrowNeverRaises ==
  call.op = "run_no_throw" =>
    LET d == conn.stmt
        r == run(view, call.command, call.fetch, d)
        fetching == d.exec_ok /\ d.has_description /\ HasSelect(call.command)
    IN /\ out.kind = "ret"
       /\ ~d.exec_ok => out.val = ErrorString(DriverMsg)
       /\ (fetching /\ call.fetch \in {"all", "one"} /\ ~d.fetch_ok)
            => out.val = ErrorString(DriverMsg)
       /\ (fetching /\ call.fetch \notin {"all", "one"})
            => out.val = ErrorString(FetchMsg)
       /\ r.kind = "raise"
            => (out.val.t = "errstr" /\ out.val.prefix = "Error: "
                /\ out.val.msg = r.msg)
       /\ r.kind = "ret" => out = r

C4_Witness ==
  /\ call.op = "run_no_throw" /\ call.fetch = "all" /\ HasSelect(call.command)
  /\ conn.stmt.exec_ok /\ conn.stmt.has_description /\ ~conn.stmt.fetch_ok
  /\ out = Return(ErrorString(DriverMsg))

\* C5 as stated: after a successful construction the stored usable-table set
\* and the value of get_usable_table_names both equal includeTables when
\* non-empty and allTables minus ignoreTables otherwise.
C5_Original ==
  /\ (call.op = "init" /\ out.kind = "ret")
       => view.usable_tables =
            Derived(db.listed, call.args.include_tables, call.args.ignore_tables)
  /\ view.constructed => view.usable_tables = ViewDerived
  /\ call.op = "get_usable_table_names" => out.val.names = ViewDerived

\* C5 amended: get_usable_table_names returns includeTables when non-empty and
\* allTables minus ignoreTables otherwise; the set stored at construction is
\* that same set unless it is empty, in which case the stored set is allTables.
C5_UsableTables ==
  /\ (call.op = "init" /\ out.kind = "ret")
       => LET u == Derived(db.listed, call.args.include_tables,
                           call.args.ignore_tables)
          IN /\ view.include_tables = call.args.include_tables
             /\ view.ignore_tables = call.args.ignore_tables
             /\ view.all_tables = db.listed
             /\ view.usable_tables = IF u # {} THEN u ELSE db.listed
  /\ view.constructed
       => view.usable_tables =
            IF ViewDerived # {} THEN ViewDerived ELSE view.all_tables
  /\ call.op = "get_usable_table_names" => out.val.names = ViewDerived

C5_Witness ==
  /\ view.constructed /\ view.all_tables # {}
  /\ view.ignore_tables = view.all_tables
  /\ call.op = "get_usable_table_names" /\ out.val.names = {}
  /\ view.usable_tables = view.all_tables

\* C6 as stated: construction with include_tables and ignore_tables both
\* non-empty always fails with the configuration error and yields no view.
C6_Original ==
  (/\ call.op = "init"
   /\ call.args.include_tables # {} /\ call.args.ignore_tables # {})
    => (out = Raise("ValueError", ConfigMsg) /\ ~view.constructed)

\* C6 amended: when the statement the constructor executes first succeeds,
\* construction with include_tables and ignore_tables both non-empty fails
\* with the configuration error and yields no view, for every catalog content
\* and also when supplied names are absent from allTables; when that first
\* statement fails, the driver's error is raised instead.
C6_ConfigErrorFirst ==
  (/\ call.op = "init"
   /\ call.args.include_tables # {} /\ call.args.ignore_tables # {})
    => /\ ~view.constructed
       /\ out = IF call.args.probe_ok THEN Raise("ValueError", ConfigMsg)
                ELSE Raise("DriverError", DriverMsg)

C6_Witness ==
  /\ call.op = "init" /\ call.args.probe_ok
  /\ call.args.include_tables # {} /\ call.args.ignore_tables # {}
  /\ call.args.include_tables \ db.listed # {}
  /\ call.args.include_tables \cap call.args.ignore_tables = {}
  /\ out = Raise("ValueError", ConfigMsg)

\* the requested names absent from the usable set
Absent == call.table_names.names \ ViewDerived

\* C7 as stated: get_table_info with a requested name outside the usable set
\* fails with the unknown-table error carrying exactly the absent names, and
\* get_table_info_no_throw returns the "Error: ..." string instead.
C7_Original ==
  /\ (call.op = "get_table_info" /\ call.table_names.given /\ Absent # {})
       => out = Raise("ValueError", TableNamesMsg(Absent))
  /\ (call.op = "get_table_info_no_throw" /\ call.table_names.given
      /\ Absent # {})
       => out = Return(ErrorString(TableNamesMsg(Absent)))

\* C7 amended: when the catalog query that get_table_info issues first
\* succeeds, a requested name outside the usable set makes it fail with the
\* unknown-table error carrying exactly the absent names and render nothing,
\* and get_table_info_no_throw returns the "Error: ..." string; when the
\* catalog query fails, both raise the driver's error.
C7_UnknownTables ==
  /\ (call.op = "get_table_info" /\ call.table_names.given /\ Absent # {})
       => out = IF conn.catalog_ok
                THEN Raise("ValueError", TableNamesMsg(Absent))
                ELSE Raise("DriverError", DriverMsg)
  /\ (call.op = "get_table_info_no_throw" /\ call.table_names.given
      /\ Absent # {})
       => out = IF conn.catalog_ok
                THEN Return(ErrorString(TableNamesMsg(Absent)))
                ELSE Raise("DriverError", DriverMsg)

C7_Witness ==
  /\ call.op = "get_table_info_no_throw" /\ call.table_names.given
  /\ Cardinality(Absent) >= 2 /\ conn.catalog_ok
  /\ out = Return(ErrorString(TableNamesMsg(Absent)))

\* the names the view holds are tables of the database
ViewWithinAllTables ==
  view.constructed =>
    /\ view.all_tables = db.listed
    /\ view.include_tables \subseteq view.all_tables
    /\ view.ignore_tables \subseteq view.all_tables
    /\ view.custom_table_info.keys \subseteq view.all_tables
    /\ view.usable_tables \subseteq view.all_tables

\* C8: in every state of a constructed view, after any sequence of calls,
\* includeTables, ignoreTables, the keys of customTableInfo and usableTables
\* are within the allTables computed at construction, and no call changes
\* any of these sets.
C8_ViewStable ==
  /\ []ViewWithinAllTables
  /\ [][view.constructed => view' = view]_vars

C8_Witness ==
  /\ view.constructed /\ view.custom_table_info.keys # {}
  /\ view.ignore_tables # {}
  /\ call.op = "run" /\ out.kind = "raise"

\* C9: run(statement, "all") on a statement with "select" returns the
\* driver's rows in order and number, each with its arity and cell order,
\* every string cell cut to its prefix of at most truncateColumnLength
\* characters and every other cell unchanged.
C9_TruncatedRows ==
  (call.op = "run" /\ call.fetch = "all" /\ HasSelect(call.command)
   /\ out.kind = "ret")
    => LET rows == conn.stmt.rows
           res == out.val.rows
       IN /\ out.val.tag = "rows"
          /\ Len(res) = Len(rows)
          /\ \A i \in 1..Len(rows) :
               /\ Len(res[i]) = Len(rows[i])
               /\ \A j \in 1..Len(rows[i]) :
                    LET c == rows[i][j]
                        n == IF Len(c.s) < view.truncate_col
                             THEN Len(c.s) ELSE view.truncate_col
                    IN IF c.isstr
                       THEN /\ res[i][j].isstr
                            /\ Len(res[i][j].s) = n
                            /\ \A k \in 1..n : res[i][j].s[k] = c.s[k]
                       ELSE res[i][j] = c

C9_Witness ==
  /\ call.op = "run" /\ call.fetch = "all" /\ HasSelect(call.command)
  /\ out.kind = "ret" /\ Len(out.val.rows) = 2
  /\ conn.stmt.rows[2][1].isstr
  /\ Len(conn.stmt.rows[2][1].s) > view.truncate_col
  /\ Len(out.val.rows[2][1].s) = view.truncate_col
  /\ out.val.rows[1][1] = IntCell(7)

\* C10: when the catalog query fails with a driver error,
\* get_table_info_no_throw raises that error, while run_no_throw turns a
\* driver error of its statement into an "Error: ..." string.
C10_NarrowSafetyNet ==
  /\ (call.op = "get_table_info_no_throw" /\ ~conn.catalog_ok)
       => out = Raise("DriverError", DriverMsg)
  /\ (call.op = "get_table_info_no_throw" /\ conn.catalog_ok)
       => out.kind = "ret"
  /\ (call.op = "run_no_throw" /\ ~conn.stmt.exec_ok)
       => out = Return(ErrorString(DriverMsg))

C10_Witness ==
  /\ call.op = "get_table_info_no_throw" /\ ~conn.catalog_ok
  /\ call.table_names.given /\ Absent # {}
  /\ out = Raise("DriverError", DriverMsg)

====
